---- MODULE Spec2Model ----
(***************************************************************************)
(* Model of the encode / transform / decode adapters of ndgnuh/eyeball:    *)
(*   megane/augment.py          encode(sample), decode(sample, outputs)    *)
(*   megane/augment/albumen.py  encode(sample), decode(outputs)            *)
(* A Sample is flattened into keypoints tagged with the index of the box   *)
(* that owns them (box_mapping), an albumentations pipeline transforms the *)
(* keypoints, and decode regroups them into polygons.                      *)
(*                                                                         *)
(* Coordinates are exact rationals <<num, den>> in lowest terms, so that   *)
(* scaling by the image size and back is computed, not assumed.  Python    *)
(* list indices (the values of box_mapping) stay 0-based as in the code;   *)
(* TLA+ sequences are 1-based, so boxes[mask] is written boxes[mask + 1].  *)
(*                                                                         *)
(* A second state machine models src/trainer.py: the generator             *)
(* loop_over_loader(loader, n) and Trainer.train, which consumes it.       *)
(***************************************************************************)
EXTENDS Integers, Sequences, FiniteSets, TLC

VARIABLES sample, impl, pc, err, enc, out, dec

\* src/trainer.py: the configuration and the training loader, the frame of
\* the generator (gpc, step, cursor, batch), what it has yielded, and the frame
\* and effects of Trainer.train (tpc, print_every, events, saves, terr)
VARIABLES config, loader, gpc, step, cursor, batch, yields, passes,
          tpc, print_every, events, saves, terr

pvars == <<sample, impl, pc, err, enc, out, dec>>

tvars == <<config, loader, gpc, step, cursor, batch, yields, passes,
           tpc, print_every, events, saves, terr>>

vars == <<pvars, tvars>>

-----------------------------------------------------------------------------
(* Bounds of the model *)

MaxBoxes == 2

MaxPoints == 3

MaxKeypoints == 6

\* src/trainer.py: total_steps is at most MaxSteps, the loader has at most
\* MaxLoader batches, print_every is at most MaxPrintEvery, and the count of
\* passes over the loader saturates at MaxPasses
MaxSteps == 4

MaxLoader == 2

MaxPrintEvery == 2

MaxPasses == 2

-----------------------------------------------------------------------------
(* Exact rational arithmetic on <<num, den>>, num >= 0, den > 0 *)

RECURSIVE GCD(_, _)
GCD(a, b) == IF b = 0 THEN a ELSE GCD(b, a % b)

Reduce(n, d) == LET g == GCD(n, d) IN <<n \div g, d \div g>>

RatMul(r, k) == Reduce(r[1] * k, r[2])

RatDiv(r, k) == Reduce(r[1], r[2] * k)

RatSubFrom(k, r) == Reduce(k * r[2] - r[1], r[2])

RatLeqOne(r) == r[1] <= r[2]

-----------------------------------------------------------------------------
(* Optional values: Sample.scores is a list or None *)

None == [isNone |-> TRUE, val |-> <<>>]

Some(v) == [isNone |-> FALSE, val |-> v]

-----------------------------------------------------------------------------
(* Sequence helpers corresponding to Python list idioms *)

Range(s) == {s[k] : k \in 1..Len(s)}

Min2(a, b) == IF a < b THEN a ELSE b

RECURSIVE MaxOf(_)
MaxOf(S) == LET x == CHOOSE y \in S : TRUE
            IN IF S = {x} THEN x
               ELSE LET m == MaxOf(S \ {x}) IN IF x > m THEN x ELSE m

RECURSIVE Concat(_)
Concat(ss) == IF ss = <<>> THEN <<>> ELSE Head(ss) \o Concat(Tail(ss))

\* [x for (x, keep) in zip(xs, keeps) if keep]
RECURSIVE ZipFilter(_, _)
ZipFilter(xs, keeps) ==
    IF xs = <<>> \/ keeps = <<>> THEN <<>>
    ELSE (IF Head(keeps) THEN <<Head(xs)>> ELSE <<>>)
         \o ZipFilter(Tail(xs), Tail(keeps))

\* the positions of s, in increasing order, that satisfy the set P
RECURSIVE PositionsIn(_, _, _)
PositionsIn(n, P, k) ==
    IF k > n THEN <<>>
    ELSE (IF k \in P THEN <<k>> ELSE <<>>) \o PositionsIn(n, P, k + 1)

-----------------------------------------------------------------------------
(* Polygon scaling *)

\* utils.denormalize_polygon(polygon, w, h): normalized -> pixel
denormalize_polygon(polygon, w, h) ==
    [k \in 1..Len(polygon) |-> <<RatMul(polygon[k][1], w), RatMul(polygon[k][2], h)>>]

\* utils.normalize_polygon(polygon, w, h): pixel -> normalized
normalize_polygon(polygon, w, h) ==
    [k \in 1..Len(polygon) |-> <<RatDiv(polygon[k][1], w), RatDiv(polygon[k][2], h)>>]

\* simpoly.scale_to(polygon, w, h)
scale_to(polygon, w, h) ==
    [k \in 1..Len(polygon) |-> <<RatMul(polygon[k][1], w), RatMul(polygon[k][2], h)>>]

\* simpoly.scale_from(polygon, w, h)
scale_from(polygon, w, h) ==
    [k \in 1..Len(polygon) |-> <<RatDiv(polygon[k][1], w), RatDiv(polygon[k][2], h)>>]

-----------------------------------------------------------------------------
(* Samples *)

\* image sizes <<width, height>> (PIL Image.size)
ImageSizes == {<<2, 4>>, <<3, 3>>}

\* the j-th point of the i-th box (1-based), in normalized coordinates:
\* x in [0, 1), y in (0, 1]; distinct (i, j) give distinct points
Point(i, j) == <<Reduce(j - 1, MaxPoints), Reduce(i, MaxBoxes)>>

Polygon(i, n) == [j \in 1..n |-> Point(i, j)]

ClassOf(i) == <<"class", i>>

ScoreOf(i) == <<"score", i>>

Sample(image, boxes, classes, scores) ==
    [image |-> image, boxes |-> boxes, classes |-> classes, scores |-> scores]

RECURSIVE Sum(_)
Sum(s) == IF s = <<>> THEN 0 ELSE Head(s) + Sum(Tail(s))

\* numbers of points of the boxes of a sample: every sequence of at most
\* MaxBoxes lengths, each in 0..MaxPoints, of at most MaxKeypoints in all
PointCounts ==
    {cnt \in UNION {[1..n -> 0..MaxPoints] : n \in 0..MaxBoxes} :
       Sum(cnt) <= MaxKeypoints}

ClassCounts(n) == {m \in {n - 1, n, n + 1} : m >= 0}

\* the (number of classes, scores) pairs that go with n boxes: scores are
\* None or one per box
Annotations(n) ==
    {<<m, None>> : m \in ClassCounts(n)}
      \cup {<<n, Some([i \in 1..n |-> ScoreOf(i)])>>}

SampleSet ==
    UNION {{Sample(size,
                   [i \in 1..Len(cnt) |-> Polygon(i, cnt[i])],
                   [i \in 1..(a[1]) |-> ClassOf(i)],
                   a[2])
              : size \in ImageSizes, a \in Annotations(Len(cnt))}
           : cnt \in PointCounts}

WellFormed(s) ==
    /\ Len(s.classes) = Len(s.boxes)
    /\ ~s.scores.isNone => Len(s.scores.val) = Len(s.boxes)

NoDict == [image |-> <<0, 0>>, keypoints |-> <<>>, box_mapping |-> <<>>]

NoSample == Sample(<<0, 0>>, <<>>, <<>>, None)

-----------------------------------------------------------------------------
(* megane/augment.py *)

\* encode(sample): the loop of lines 31-33 over enumerate(boxes)
RECURSIVE AugmentEncodeLoop(_, _, _, _)
AugmentEncodeLoop(boxes, i, keypoints, masks) ==
    IF i > Len(boxes) THEN [keypoints |-> keypoints, masks |-> masks]
    ELSE AugmentEncodeLoop(boxes, i + 1,
                           keypoints \o boxes[i],
                           masks \o [k \in 1..Len(boxes[i]) |-> i - 1])

AugmentEncode(s) ==
    LET w == s.image[1]
        h == s.image[2]
        boxes == [i \in 1..Len(s.boxes) |-> denormalize_polygon(s.boxes[i], w, h)]
        r == AugmentEncodeLoop(boxes, 1, <<>>, <<>>)
    IN [image |-> s.image, keypoints |-> r.keypoints, box_mapping |-> r.masks]

\* boxes = [[]] * len(sample.boxes): the references held by the outer list.
\* List repetition copies the reference, so every slot names list object 1.
BoxRefs(n) == [i \in 1..n |-> 1]

\* the loop of lines 62-64: boxes[mask].append((x, y)) on the referenced object
RECURSIVE AugmentDecodeLoop(_, _, _, _, _)
AugmentDecodeLoop(refs, heap, masks, keypoints, k) ==
    IF k > Min2(Len(masks), Len(keypoints)) THEN heap
    ELSE AugmentDecodeLoop(refs,
                           [heap EXCEPT ![refs[masks[k] + 1]] = Append(@, keypoints[k])],
                           masks, keypoints, k + 1)

\* variant of decode that returns sample.classes without filtering it by keeps
AugmentDecodeClassesUnfiltered(s, outputs) ==
    LET w == s.image[1]
        h == s.image[2]
        n == Len(s.boxes)
        refs == BoxRefs(n)
        heap == AugmentDecodeLoop(refs, [o \in Range(refs) |-> <<>>],
                                  outputs.box_mapping, outputs.keypoints, 1)
        boxes == [i \in 1..n |-> heap[refs[i]]]
        keeps == [i \in 1..n |-> Len(boxes[i]) > 2]
        normalized == [i \in 1..n |-> normalize_polygon(boxes[i], w, h)]
    IN Sample(outputs.image,
              ZipFilter(normalized, keeps),
              s.classes,
              IF s.scores.isNone THEN None
              ELSE Some(ZipFilter(s.scores.val, keeps)))

AugmentDecode(s, outputs) ==
    LET w == s.image[1]
        h == s.image[2]
        n == Len(s.boxes)
        refs == BoxRefs(n)
        heap == AugmentDecodeLoop(refs, [o \in Range(refs) |-> <<>>],
                                  outputs.box_mapping, outputs.keypoints, 1)
        boxes == [i \in 1..n |-> heap[refs[i]]]
        keeps == [i \in 1..n |-> Len(boxes[i]) > 2]
        normalized == [i \in 1..n |-> normalize_polygon(boxes[i], w, h)]
    IN Sample(outputs.image,
              ZipFilter(normalized, keeps),
              ZipFilter(s.classes, keeps),
              IF s.scores.isNone THEN None
              ELSE Some(ZipFilter(s.scores.val, keeps)))

-----------------------------------------------------------------------------
(* megane/augment/albumen.py *)

\* idendity(**kw): returns its keyword arguments as they are
idendity(kw) == kw

\* encode(sample): the loop of lines 39-42 over enumerate(boxes)
RECURSIVE AlbumenEncodeLoop(_, _, _, _, _, _)
AlbumenEncodeLoop(boxes, w, h, i, keypoints, masks) ==
    IF i > Len(boxes) THEN [keypoints |-> keypoints, masks |-> masks]
    ELSE LET polygon == scale_to(boxes[i], w, h)
         IN AlbumenEncodeLoop(boxes, w, h, i + 1,
                              keypoints \o polygon,
                              masks \o [k \in 1..Len(polygon) |-> i - 1])

\* line 44: assert max(masks) == len(classes) - 1.
\* max() of an empty list raises ValueError before the comparison is made.
AlbumenEncodeCheck(masks, classes) ==
    IF masks = <<>> THEN "ValueError"
    ELSE IF MaxOf(Range(masks)) = Len(classes) - 1 THEN "ok"
    ELSE "AssertionError"

\* variant of encode that unpacks image.shape[:2] as (w, h)
AlbumenEncodeShapeSwapped(s) ==
    LET w == s.image[2]
        h == s.image[1]
        r == AlbumenEncodeLoop(s.boxes, w, h, 1, <<>>, <<>>)
    IN [raised |-> AlbumenEncodeCheck(r.masks, s.classes),
        dict |-> [image |-> s.image, keypoints |-> r.keypoints,
                  box_mapping |-> r.masks, classes |-> s.classes]]

AlbumenEncode(s) ==
    LET h == s.image[2]
        w == s.image[1]
        r == AlbumenEncodeLoop(s.boxes, w, h, 1, <<>>, <<>>)
    IN [raised |-> AlbumenEncodeCheck(r.masks, s.classes),
        dict |-> [image |-> s.image, keypoints |-> r.keypoints,
                  box_mapping |-> r.masks, classes |-> s.classes]]

\* variant of the test of line 78 that is off by one
AlbumenKeepsFrom2(box) == Len(box) >= 2

\* line 78: if len(box) > 2
AlbumenKeeps(box) == Len(box) > 2

\* variant of groupby that appends a position whose key was seen before to
\* the newest group instead of the group of its key
RECURSIVE GroupByNewest(_, _, _)
GroupByNewest(masks, j, groups) ==
    IF j > Len(masks) THEN groups
    ELSE LET key == masks[j]
             at == {g \in 1..Len(groups) : groups[g].key = key}
         IN IF at = {}
            THEN GroupByNewest(masks, j + 1,
                               Append(groups, [key |-> key, idx |-> <<j>>]))
            ELSE GroupByNewest(masks, j + 1,
                               [groups EXCEPT ![Len(groups)].idx = Append(@, j)])

\* toolz.groupby(lambda i: i[1], enumerate(masks)): a dict, in insertion order
\* of its keys, from each mask value to the positions (1-based here) holding it
RECURSIVE GroupBy(_, _, _)
GroupBy(masks, j, groups) ==
    IF j > Len(masks) THEN groups
    ELSE LET key == masks[j]
             at == {g \in 1..Len(groups) : groups[g].key = key}
         IN IF at = {}
            THEN GroupBy(masks, j + 1, Append(groups, [key |-> key, idx |-> <<j>>]))
            ELSE GroupBy(masks, j + 1,
                         [g \in 1..Len(groups) |->
                            IF g \in at
                            THEN [key |-> key, idx |-> Append(groups[g].idx, j)]
                            ELSE groups[g]])

\* the loop of lines 76-80 over groups.items()
RECURSIVE AlbumenDecodeLoop(_, _, _, _, _, _, _, _)
AlbumenDecodeLoop(groups, g, xy, classes, w, h, boxes, out_classes) ==
    IF g > Len(groups) THEN [boxes |-> boxes, out_classes |-> out_classes]
    ELSE LET i == groups[g].key
             idx == groups[g].idx
             box == scale_from([k \in 1..Len(idx) |-> xy[idx[k]]], w, h)
         IN IF AlbumenKeeps(box)
            THEN AlbumenDecodeLoop(groups, g + 1, xy, classes, w, h,
                                   Append(boxes, box),
                                   Append(out_classes, classes[i + 1]))
            ELSE AlbumenDecodeLoop(groups, g + 1, xy, classes, w, h,
                                   boxes, out_classes)

\* variant of decode that unpacks image.size as (h, w)
AlbumenDecodeSizeSwapped(outputs) ==
    LET h == outputs.image[1]
        w == outputs.image[2]
        groups == GroupBy(outputs.box_mapping, 1, <<>>)
        r == AlbumenDecodeLoop(groups, 1, outputs.keypoints, outputs.classes,
                               w, h, <<>>, <<>>)
    IN [raised |-> IF Len(r.boxes) = Len(r.out_classes) THEN "ok"
                   ELSE "AssertionError",
        sample |-> Sample(outputs.image, r.boxes, r.out_classes, None)]

\* decode(outputs); Sample(image=, boxes=, classes=) leaves scores at None
AlbumenDecode(outputs) ==
    LET w == outputs.image[1]
        h == outputs.image[2]
        groups == GroupBy(outputs.box_mapping, 1, <<>>)
        r == AlbumenDecodeLoop(groups, 1, outputs.keypoints, outputs.classes,
                               w, h, <<>>, <<>>)
    IN [raised |-> IF Len(r.boxes) = Len(r.out_classes) THEN "ok"
                   ELSE "AssertionError",
        sample |-> Sample(outputs.image, r.boxes, r.out_classes, None)]

-----------------------------------------------------------------------------
(* The albumentations pipeline, as far as keypoints and image size go *)

TransformKinds == {"identity", "rot90", "reversed", "interleaved"}

\* RandomRotate90 by a quarter turn: a W x H image becomes H x W
Rot90Point(xy, w) == <<xy[2], RatSubFrom(w, xy[1])>>

\* the order in which the kept positions come out
Reorder(pos, kind) ==
    LET n == Len(pos)
    IN CASE kind = "reversed" -> [k \in 1..n |-> pos[n + 1 - k]]
         [] kind = "interleaved" ->
              SelectSeq(pos, LAMBDA p : p % 2 = 1) \o SelectSeq(pos, LAMBDA p : p % 2 = 0)
         [] OTHER -> pos

\* A transform keeps the (keypoint, box_mapping) pairs at the positions keep,
\* moves the keypoints, and passes every other key through.
ApplyTransform(inputs, keep, kind) ==
    LET pos == Reorder(PositionsIn(Len(inputs.keypoints), keep, 1), kind)
        w == inputs.image[1]
        h == inputs.image[2]
        move(xy) == IF kind = "rot90" THEN Rot90Point(xy, w) ELSE xy
    IN [inputs EXCEPT
          !.image = IF kind = "rot90" THEN <<h, w>> ELSE @,
          !.keypoints = [k \in 1..Len(pos) |-> move(inputs.keypoints[pos[k]])],
          !.box_mapping = [k \in 1..Len(pos) |-> inputs.box_mapping[pos[k]]]]

-----------------------------------------------------------------------------
(* State machine: one sample through encode, transform, decode *)

\* no Trainer has been constructed
TrainerIdle ==
    /\ config = [total_steps |-> 0, print_every |-> None, validate_every |-> 0]
    /\ loader = <<>>
    /\ gpc = "none"
    /\ step = 0
    /\ cursor = 0
    /\ batch = <<>>
    /\ yields = <<>>
    /\ passes = 0
    /\ tpc = "none"
    /\ print_every = None
    /\ events = <<>>
    /\ saves = <<>>
    /\ terr = "ok"

Init ==
    /\ sample \in SampleSet
    /\ impl = "none"
    /\ pc = "start"
    /\ err = "ok"
    /\ enc = NoDict
    /\ out = NoDict
    /\ dec = NoSample
    /\ TrainerIdle

\* megane/augment.py encode(sample)
EncodeAugment ==
    /\ pc = "start"
    /\ impl' = "augment"
    /\ enc' = AugmentEncode(sample)
    /\ pc' = "encoded"
    /\ UNCHANGED <<sample, err, out, dec>>
    /\ UNCHANGED tvars

\* megane/augment/albumen.py encode(sample)
EncodeAlbumen ==
    /\ pc = "start"
    /\ impl' = "albumen"
    /\ LET r == AlbumenEncode(sample)
       IN IF r.raised = "ok"
          THEN /\ enc' = r.dict
               /\ pc' = "encoded"
               /\ err' = err
          ELSE /\ enc' = enc
               /\ pc' = "encode_raised"
               /\ err' = r.raised
    /\ UNCHANGED <<sample, out, dec>>
    /\ UNCHANGED tvars

\* self.transform(**enc)
Transform ==
    /\ pc = "encoded"
    /\ \E keep \in SUBSET (1..Len(enc.keypoints)), kind \in TransformKinds :
          out' = ApplyTransform(enc, keep, kind)
    /\ pc' = "transformed"
    /\ UNCHANGED <<sample, impl, err, enc, dec>>
    /\ UNCHANGED tvars

\* megane/augment.py decode(sample, outputs)
DecodeAugment ==
    /\ pc = "transformed"
    /\ impl = "augment"
    /\ dec' = AugmentDecode(sample, out)
    /\ pc' = "decoded"
    /\ UNCHANGED <<sample, impl, err, enc, out>>
    /\ UNCHANGED tvars

\* megane/augment/albumen.py decode(outputs)
DecodeAlbumen ==
    /\ pc = "transformed"
    /\ impl = "albumen"
    /\ LET r == AlbumenDecode(out)
       IN IF r.raised = "ok"
          THEN /\ dec' = r.sample
               /\ pc' = "decoded"
               /\ err' = err
          ELSE /\ dec' = dec
               /\ pc' = "decode_raised"
               /\ err' = r.raised
    /\ UNCHANGED <<sample, impl, enc, out>>
    /\ UNCHANGED tvars

Next ==
    \/ EncodeAugment
    \/ EncodeAlbumen
    \/ Transform
    \/ DecodeAugment
    \/ DecodeAlbumen

Spec == Init /\ [][Next]_vars

-----------------------------------------------------------------------------
(* src/trainer.py *)

Max2(a, b) == IF a > b THEN a ELSE b

\* the element of index k (0-based) of the training loader
BatchOf(k) == <<"batch", k>>

LoaderSet == {[k \in 1..len |-> BatchOf(k - 1)] : len \in 0..MaxLoader}

\* TrainConfig: total_steps (any integer from -1), print_every (an int or
\* None) and validate_every
ConfigSet ==
    [total_steps : -1..MaxSteps,
     print_every : {None} \cup {Some(k) : k \in 1..MaxPrintEvery},
     validate_every : {1} \cup {5 * k : k \in 1..MaxPrintEvery}]

\* variant of the test of line 36 that is off by one
ReturnTestAfter(s, n) == s > n

\* loop_over_loader, line 36: if step >= n
ReturnTest(s, n) == s >= n

\* Trainer.train, lines 87-90
PrintEvery(cfg) ==
    IF cfg.print_every.isNone
    THEN Some(Max2(1, cfg.validate_every \div 5))
    ELSE cfg.print_every

\* variant of the test of line 118 that counts the steps from 0
ShouldCheckpointFrom0(s, every) == (s - 1) % every = 0

\* Trainer.train, line 118: if step % print_every == 0
ShouldCheckpoint(s, every) == s % every = 0

\* Trainer.save_model(self, save_path), called with the positional arguments
\* args: Python binds the arguments before the body runs and raises
\* TypeError when save_path is missing
save_model(args) ==
    IF Len(args) = 1
    THEN [raised |-> "ok", save_path |-> args[1]]
    ELSE [raised |-> "TypeError", save_path |-> ""]

\* no sample is being augmented
PipelineIdle ==
    /\ sample = NoSample
    /\ impl = "none"
    /\ pc = "none"
    /\ err = "ok"
    /\ enc = NoDict
    /\ out = NoDict
    /\ dec = NoSample

\* a constructed Trainer on which train() is called
InitTrainer ==
    /\ PipelineIdle
    /\ config \in ConfigSet
    /\ loader \in LoaderSet
    /\ gpc = "none"
    /\ step = 0
    /\ cursor = 0
    /\ batch = <<>>
    /\ yields = <<>>
    /\ passes = 0
    /\ tpc = "train"
    /\ print_every = None
    /\ events = <<>>
    /\ saves = <<>>
    /\ terr = "ok"

\* Trainer.train, lines 86-103: print_every is settled and the generator
\* loop_over_loader(train_loader, total_steps) is created; its body does not
\* run before the first next()
TrainSetup ==
    /\ tpc = "train"
    /\ print_every' = PrintEvery(config)
    /\ gpc' = "created"
    /\ tpc' = "next"
    /\ UNCHANGED <<config, loader, step, cursor, batch, yields, passes,
                   events, saves, terr>>
    /\ UNCHANGED pvars

\* loop_over_loader, line 31: step = 0
GenStart ==
    /\ tpc = "next" /\ gpc = "created"
    /\ step' = 0
    /\ gpc' = "while"
    /\ UNCHANGED <<config, loader, cursor, batch, yields, passes,
                   tpc, print_every, events, saves, terr>>
    /\ UNCHANGED pvars

\* lines 32-33: while True enters for batch in loader, a new iteration of
\* the loader from its start
GenWhile ==
    /\ tpc = "next" /\ gpc = "while"
    /\ cursor' = 0
    /\ gpc' = "for"
    /\ UNCHANGED <<config, loader, step, batch, yields, passes,
                   tpc, print_every, events, saves, terr>>
    /\ UNCHANGED pvars

\* lines 33-35: the loader has a next batch; step = step + 1; yield step, batch.
\* The pair goes to the for loop of Trainer.train (line 104).
GenYield ==
    /\ tpc = "next" /\ gpc = "for"
    /\ cursor < Len(loader)
    /\ batch' = loader[cursor + 1]
    /\ cursor' = cursor + 1
    /\ step' = step + 1
    /\ yields' = Append(yields, <<step + 1, loader[cursor + 1]>>)
    /\ gpc' = "yielded"
    /\ tpc' = "zero_grad"
    /\ events' = <<>>
    /\ UNCHANGED <<config, loader, passes, print_every, saves, terr>>
    /\ UNCHANGED pvars

\* variant without the enclosing while True: the generator returns when the
\* loader is exhausted
GenExhaustedReturns ==
    /\ tpc = "next" /\ gpc = "for"
    /\ cursor = Len(loader)
    /\ gpc' = "returned"
    /\ passes' = Min2(passes + 1, MaxPasses)
    /\ UNCHANGED <<config, loader, step, cursor, batch, yields,
                   tpc, print_every, events, saves, terr>>
    /\ UNCHANGED pvars

\* line 33: the loader is exhausted, the for loop ends and while True repeats
GenExhausted ==
    /\ tpc = "next" /\ gpc = "for"
    /\ cursor = Len(loader)
    /\ gpc' = "while"
    /\ passes' = Min2(passes + 1, MaxPasses)
    /\ UNCHANGED <<config, loader, step, cursor, batch, yields,
                   tpc, print_every, events, saves, terr>>
    /\ UNCHANGED pvars

\* lines 36-37: resumed after the yield; if step >= n: return
GenResume ==
    /\ tpc = "next" /\ gpc = "yielded"
    /\ gpc' = IF ReturnTest(step, config.total_steps) THEN "returned" ELSE "for"
    /\ UNCHANGED <<config, loader, step, cursor, batch, yields, passes,
                   tpc, print_every, events, saves, terr>>
    /\ UNCHANGED pvars

\* one statement of the body of the training loop
TrainEvent(at, name, then) ==
    /\ tpc = at
    /\ events' = Append(events, name)
    /\ tpc' = then
    /\ UNCHANGED <<config, loader, gpc, step, cursor, batch, yields, passes,
                   print_every, saves, terr>>
    /\ UNCHANGED pvars

\* line 105: optimizer.zero_grad()
ZeroGrad == TrainEvent("zero_grad", "zero_grad", "forward")

\* line 106: output = model(batch)
Forward == TrainEvent("forward", "forward", "backward")

\* line 107: fabric.backward(output.loss)
Backward == TrainEvent("backward", "backward", "clip_gradients")

\* line 108: fabric.clip_gradients(model, optimizer, max_norm=5)
ClipGradients == TrainEvent("clip_gradients", "clip_gradients", "optimizer_step")

\* line 109: optimizer.step()
OptimizerStep == TrainEvent("optimizer_step", "optimizer_step", "log")

\* lines 111-116: progress bar, logger and running loss
LogLoss == TrainEvent("log", "log", "checkpoint")

\* lines 118-124: the step is a multiple of print_every; checkpoint
Checkpoint ==
    /\ tpc = "checkpoint"
    /\ ShouldCheckpoint(step, print_every.val)
    /\ LET r == save_model(<<"latest_weight_path">>)
       IN IF r.raised = "ok"
          THEN /\ saves' = Append(saves, [step |-> step, save_path |-> r.save_path])
               /\ events' = Append(events, "checkpoint")
               /\ tpc' = "next"
               /\ terr' = terr
          ELSE /\ saves' = saves
               /\ events' = events
               /\ tpc' = "raised"
               /\ terr' = r.raised
    /\ UNCHANGED <<config, loader, gpc, step, cursor, batch, yields, passes,
                   print_every>>
    /\ UNCHANGED pvars

\* line 118: the step is no multiple of print_every
NoCheckpoint ==
    /\ tpc = "checkpoint"
    /\ ~ShouldCheckpoint(step, print_every.val)
    /\ tpc' = "next"
    /\ UNCHANGED <<config, loader, gpc, step, cursor, batch, yields, passes,
                   print_every, events, saves, terr>>
    /\ UNCHANGED pvars

\* lines 129-130: the generator has returned, the for loop ends;
\* self.save_model() and the return of train
FinalSave ==
    /\ tpc = "next" /\ gpc = "returned"
    /\ LET r == save_model(<<>>)
       IN IF r.raised = "ok"
          THEN /\ saves' = Append(saves, [step |-> step, save_path |-> r.save_path])
               /\ tpc' = "done"
               /\ terr' = terr
          ELSE /\ saves' = saves
               /\ tpc' = "raised"
               /\ terr' = r.raised
    /\ UNCHANGED <<config, loader, gpc, step, cursor, batch, yields, passes,
                   print_every, events>>
    /\ UNCHANGED pvars

NextTrainer ==
    \/ TrainSetup
    \/ GenStart
    \/ GenWhile
    \/ GenYield
    \/ GenExhausted
    \/ GenResume
    \/ ZeroGrad
    \/ Forward
    \/ Backward
    \/ ClipGradients
    \/ OptimizerStep
    \/ LogLoss
    \/ Checkpoint
    \/ NoCheckpoint
    \/ FinalSave

SpecTrainer == InitTrainer /\ [][NextTrainer]_vars

\* train() runs on one thread that is never suspended for good: a statement
\* that can run does run
SpecTrainerFair == SpecTrainer /\ WF_vars(NextTrainer)

-----------------------------------------------------------------------------
(* Vocabulary of the properties *)

\* the keypoints of dict d tagged with box index i, in the order they appear
Tagged(d, i) ==
    LET pos == PositionsIn(Len(d.box_mapping),
                           {k \in 1..Len(d.box_mapping) : d.box_mapping[k] = i}, 1)
    IN [k \in 1..Len(pos) |-> d.keypoints[pos[k]]]

\* a pixel point divided by the width and height of an image
Normalized(xy, image) == <<RatDiv(xy[1], image[1]), RatDiv(xy[2], image[2])>>

NormalizedSeq(s, image) == [k \in 1..Len(s) |-> Normalized(s[k], image)]

BoxIndices == 0..(Len(sample.boxes) - 1)

\* the box indices that keep more than 2 keypoints in the transform output
Survivors == {i \in BoxIndices : Len(Tagged(out, i)) > 2}

AllPolygons == \A i \in 1..Len(sample.boxes) : Len(sample.boxes[i]) >= 3

RECURSIVE SumLen(_)
SumLen(ss) == IF ss = <<>> THEN 0 ELSE Len(Head(ss)) + SumLen(Tail(ss))

-----------------------------------------------------------------------------
(* Properties *)

\* C1: megane/augment.py: encode, an identity transform and decode give back
\* the boxes (same polygons, same order, same points), classes and scores of
\* every well-formed sample of polygons, also with two or more boxes.
C1_AugmentRoundTrip ==
    (pc = "decoded" /\ impl = "augment" /\ out = enc
        /\ WellFormed(sample) /\ AllPolygons)
    => /\ dec.boxes = sample.boxes
       /\ dec.classes = sample.classes
       /\ dec.scores = sample.scores

\* C2: megane/augment/albumen.py: decode(idendity(**encode(sample))) has the
\* boxes and classes of the sample, for every sample of at least one box whose
\* boxes are polygons and whose classes are one per box.
C2_AlbumenRoundTrip ==
    (pc = "decoded" /\ impl = "albumen" /\ out = idendity(enc)
        /\ Len(sample.boxes) = Len(sample.classes) /\ Len(sample.boxes) >= 1
        /\ AllPolygons)
    => /\ dec.boxes = sample.boxes
       /\ dec.classes = sample.classes

C2_Witness ==
    /\ pc = "decoded" /\ impl = "albumen" /\ out = idendity(enc)
    /\ Len(sample.boxes) = 2 /\ Len(sample.classes) = 2 /\ AllPolygons
    /\ dec.boxes = sample.boxes

\* C3: megane/augment.py decode: a box left with at most 2 keypoints is absent
\* from the decoded sample together with its class and score, and every
\* decoded box has more than 2 points, all tagged with one box index.
C3_AugmentDropsDegenerate ==
    (pc = "decoded" /\ impl = "augment" /\ WellFormed(sample))
    => /\ Len(dec.boxes) = Cardinality(Survivors)
       /\ \A i \in BoxIndices \ Survivors :
             /\ ClassOf(i + 1) \notin Range(dec.classes)
             /\ ScoreOf(i + 1) \notin Range(dec.scores.val)
       /\ \A b \in 1..Len(dec.boxes) :
             /\ Len(dec.boxes[b]) > 2
             /\ \E i \in BoxIndices :
                   Range(dec.boxes[b]) \subseteq
                     Range(NormalizedSeq(Tagged(out, i), sample.image))

\* C4: megane/augment/albumen.py decode: a box index with at most 2 remaining
\* keypoints contributes no box and no class, and every decoded box has more
\* than 2 points.
C4_AlbumenDropsDegenerate ==
    (pc = "decoded" /\ impl = "albumen")
    => /\ Len(dec.boxes) = Cardinality(Survivors)
       /\ Len(dec.classes) = Cardinality(Survivors)
       /\ \A i \in BoxIndices \ Survivors :
             /\ ClassOf(i + 1) \notin Range(dec.classes)
             /\ \A b \in 1..Len(dec.boxes) :
                   Range(dec.boxes[b])
                     \cap Range(NormalizedSeq(Tagged(out, i), out.image)) = {}
       /\ \A b \in 1..Len(dec.boxes) : Len(dec.boxes[b]) > 2

C4_Witness ==
    /\ pc = "decoded" /\ impl = "albumen"
    /\ \E i, j \in BoxIndices :
          /\ Len(Tagged(enc, i)) > 2 /\ Len(Tagged(out, i)) = 2
          /\ Len(Tagged(out, j)) > 2
    /\ Len(dec.boxes) = 1

\* C5: the sample decode returns for a well-formed sample has as many classes
\* as boxes, in megane/augment.py as many scores as boxes when the sample has
\* scores, and the assertion of albumen.py decode never fails.
C5_DecodedLengths ==
    /\ (pc = "decoded" /\ WellFormed(sample))
         => /\ Len(dec.boxes) = Len(dec.classes)
            /\ (impl = "augment" /\ ~sample.scores.isNone)
                 => (~dec.scores.isNone /\ Len(dec.scores.val) = Len(dec.boxes))
    /\ pc # "decode_raised"

C5_Witness ==
    /\ pc = "decoded" /\ impl = "augment" /\ WellFormed(sample)
    /\ ~sample.scores.isNone
    /\ Len(sample.boxes) = 2 /\ AllPolygons
    /\ Len(out.keypoints) = 2
    /\ dec.boxes = <<>>

\* C6: megane/augment/albumen.py decode: each decoded box is exactly the
\* surviving keypoints tagged with one box index i, in output order, its class
\* is classes[i] of the input, and no decoded box mixes two box indices.
C6_AlbumenRegroups ==
    (pc = "decoded" /\ impl = "albumen")
    => /\ Len(dec.classes) = Len(dec.boxes)
       /\ \A b \in 1..Len(dec.boxes) :
             /\ \E i \in BoxIndices :
                   /\ dec.boxes[b] = NormalizedSeq(Tagged(out, i), out.image)
                   /\ dec.classes[b] = sample.classes[i + 1]
             /\ Cardinality({out.box_mapping[k] : k \in
                     {k \in 1..Len(out.keypoints) :
                        Normalized(out.keypoints[k], out.image)
                          \in Range(dec.boxes[b])}}) = 1

C6_Witness ==
    /\ pc = "decoded" /\ impl = "albumen"
    /\ out.box_mapping = <<0, 0, 1, 0, 1, 1>>
    /\ Len(dec.boxes) = 2

\* C7: megane/augment/albumen.py: a sample that has scores comes back from
\* encode, transform, decode with one score per surviving box, the score of
\* the box it came from.
C7_AlbumenKeepsScores ==
    (pc = "decoded" /\ impl = "albumen" /\ WellFormed(sample)
        /\ ~sample.scores.isNone)
    => /\ ~dec.scores.isNone
       /\ Len(dec.scores.val) = Len(dec.boxes)
       /\ \A b \in 1..Len(dec.boxes) : \A i \in BoxIndices :
             dec.classes[b] = sample.classes[i + 1]
               => dec.scores.val[b] = sample.scores.val[i + 1]

\* C8: the dict encode returns (either module) has one box_mapping entry per
\* keypoint and one keypoint per point of the sample, box_mapping is
\* non-decreasing, box index i tags as many keypoints as box i has points, and
\* the j-th keypoint tagged i is the j-th point of box i scaled to the image.
C8_EncodeTraceable ==
    (pc = "encoded")
    => /\ Len(enc.keypoints) = Len(enc.box_mapping)
       /\ Len(enc.keypoints) = SumLen(sample.boxes)
       /\ \A k \in 1..(Len(enc.box_mapping) - 1) :
             enc.box_mapping[k] <= enc.box_mapping[k + 1]
       /\ Range(enc.box_mapping) \subseteq BoxIndices
       /\ \A i \in BoxIndices :
             /\ Len(Tagged(enc, i)) = Len(sample.boxes[i + 1])
             /\ \A j \in 1..Len(sample.boxes[i + 1]) :
                   Tagged(enc, i)[j] =
                     <<RatMul(sample.boxes[i + 1][j][1], sample.image[1]),
                       RatMul(sample.boxes[i + 1][j][2], sample.image[2])>>

C8_Witness ==
    /\ pc = "encoded" /\ impl = "albumen"
    /\ Len(sample.boxes) = 2
    /\ Len(sample.boxes[1]) = 2 /\ Len(sample.boxes[2]) = 3
    /\ enc.box_mapping = <<0, 0, 1, 1, 1>>

\* C9: megane/augment.py: the decoded boxes are normalized by the width and
\* height of the returned sample's own image, so that keypoints inside the
\* output image decode to coordinates within [0, 1].
C9_AugmentNormalizesByOutputImage ==
    (pc = "decoded" /\ impl = "augment")
    => \A b \in 1..Len(dec.boxes) : \A p \in 1..Len(dec.boxes[b]) :
          /\ \E k \in 1..Len(out.keypoints) :
                dec.boxes[b][p] = Normalized(out.keypoints[k], dec.image)
          /\ RatLeqOne(dec.boxes[b][p][1])
          /\ RatLeqOne(dec.boxes[b][p][2])

\* C10: megane/augment/albumen.py encode returns a dict exactly for the
\* samples with as many classes as boxes (zero boxes and an empty last polygon
\* included) and raises AssertionError for every other sample.
C10_EncodeAcceptsExactlyAligned ==
    (impl = "albumen")
    => /\ Len(sample.classes) = Len(sample.boxes) => pc # "encode_raised"
       /\ Len(sample.classes) # Len(sample.boxes)
            => (pc = "encode_raised" /\ err = "AssertionError")

\* the events of the current step that are statements of the training step
\* proper (logging left out), in the order they happened
StepEvents == SelectSeq(events, LAMBDA e : e # "log")

StepOrder ==
    <<"zero_grad", "forward", "backward", "clip_gradients", "optimizer_step",
      "checkpoint">>

\* the steps whose loop body has run to its end
CompletedSteps == {s \in 1..step : s < step \/ tpc \in {"next", "raised", "done"}}

\* C11: with a loader of L >= 1 batches and n >= 1, loop_over_loader yields
\* exactly n pairs, with steps 1, 2, ..., n in order, the batch of step s being
\* element (s - 1) mod L of the loader, and nothing after step n.
C11_YieldsExactlyN ==
    (Len(loader) >= 1 /\ config.total_steps >= 1 /\ gpc # "none")
    => /\ Len(yields) <= config.total_steps
       /\ \A s \in 1..Len(yields) :
             yields[s] = <<s, BatchOf((s - 1) % Len(loader))>>
       /\ gpc = "returned" => Len(yields) = config.total_steps
       /\ gpc # "returned" =>
             (Len(yields) < config.total_steps \/ gpc = "yielded")

C11_Witness ==
    /\ gpc = "returned"
    /\ Len(loader) = 2
    /\ config.total_steps = 3
    /\ yields = <<<<1, BatchOf(0)>>, <<2, BatchOf(1)>>, <<3, BatchOf(0)>>>>

\* C12: for n <= 0 and a non-empty loader, loop_over_loader yields no pair,
\* so it never yields a step number greater than n.
C12_NoYieldForNonPositiveN ==
    (Len(loader) >= 1 /\ config.total_steps <= 0)
    => /\ yields = <<>>
       /\ \A k \in 1..Len(yields) : yields[k][1] <= config.total_steps

\* C13: Trainer.train checkpoints to latest_weight_path at exactly the steps
\* that are multiples of print_every, which is the configured value or, when
\* that is None, max(1, validate_every // 5); within a step the order is
\* zero_grad, forward, backward, gradient clipping, optimizer step, checkpoint.
C13_CheckpointSteps ==
    (tpc \notin {"none", "train"})
    => /\ ~print_every.isNone
       /\ ~config.print_every.isNone => print_every.val = config.print_every.val
       /\ config.print_every.isNone =>
             /\ print_every.val >= 1
             /\ print_every.val * 5 <= Max2(5, config.validate_every)
             /\ config.validate_every < Max2(5, print_every.val * 5 + 5)
       /\ \A k \in 1..Len(saves) :
             /\ saves[k].step % print_every.val = 0
             /\ saves[k].save_path = "latest_weight_path"
       /\ \A s \in CompletedSteps :
             s % print_every.val = 0
               => Cardinality({k \in 1..Len(saves) : saves[k].step = s}) = 1
       /\ \A k \in 1..Len(StepEvents) : StepEvents[k] = StepOrder[k]

C13_Witness ==
    /\ tpc = "next" /\ gpc = "returned"
    /\ config.total_steps = 4
    /\ config.print_every.isNone /\ config.validate_every = 10
    /\ Len(saves) = 2
    /\ saves[1].step = 2 /\ saves[2].step = 4
    /\ StepEvents = StepOrder

\* C14: after the last training step Trainer.train saves the model one last
\* time and returns normally, whether or not total_steps is a multiple of
\* print_every.
C14_FinalSaveCompletes ==
    /\ tpc # "raised"
    /\ tpc = "done" =>
          /\ Len(saves) >= 1
          /\ saves[Len(saves)].step = step

\* C15: with a non-empty loader the generator finishes for every integer n;
\* with an empty loader it never yields and never finishes, the while loop
\* spinning forever, so Trainer.train does not terminate.
C15_Termination ==
    /\ (Len(loader) >= 1) => <>(gpc = "returned")
    /\ [](Len(loader) = 0 =>
            (gpc # "returned" /\ yields = <<>> /\ tpc \notin {"done", "raised"}))
    /\ (Len(loader) = 0) => []<>(gpc = "for")

C15_Witness ==
    /\ Len(loader) = 0
    /\ passes = MaxPasses
    /\ gpc = "for"
    /\ yields = <<>>

====
